---- MODULE Spec2Model ----
(***************************************************************************)
(* Model of app.py: the Nigeria inflation dashboard.  One render of the    *)
(* script is a chain of steps (fetch, raw view, inputs, forecast,          *)
(* presentation); a user interaction restarts the chain.  Timestamps are   *)
(* records [ym, day, tod]: ym = year*12 + (month-1), tod = 0 is midnight.  *)
(* Inflation values are tenths of a percent (21.8 is 218).  The fitted     *)
(* numbers (yhat and its bounds) are not modelled, only the ds column.     *)
(***************************************************************************)
EXTENDS Integers, Sequences, FiniteSets, TLC

\* ---------------------------------------------------------------- bounds
MaxRecords == 2
MaxTod == 1
MaxRequests == 3

\* ------------------------------------------------------ program constants
SliderMin == 3
SliderMax == 36
SliderDefault == 12
InflationMin == 0
InflationMax == 1000

\* ------------------------------------------------------------- calendar
Ym(year, month) == year * 12 + (month - 1)
YearOf(ym) == ym \div 12
MonthOf(ym) == (ym % 12) + 1

IsLeap(y) == (y % 4 = 0 /\ y % 100 # 0) \/ y % 400 = 0

DaysInMonth(ym) ==
  LET m == MonthOf(ym) IN
  IF m = 2 THEN (IF IsLeap(YearOf(ym)) THEN 29 ELSE 28)
  ELSE IF m \in {4, 6, 9, 11} THEN 30 ELSE 31

Stamp(ym, day, tod) == [ym |-> ym, day |-> day, tod |-> tod]

\* total order of timestamps
Ord(ts) == (ts.ym * 32 + ts.day) * (MaxTod + 1) + ts.tod

\* ------------------------------------------------- the HTTP response space
NoError == "none"

\* an absent key of a record, a JSON null, a JSON number
MISSING == [has |-> "missing", v |-> 0]
NULL == [has |-> "null", v |-> 0]
Num(n) == [has |-> "num", v |-> n]

\* an absent "date" key
NoDate == [kind |-> "missing", y |-> 0, m |-> 0, d |-> 0]

\* the memoization entry: empty, or holding the returned table
NoCache == [full |-> FALSE, table |-> <<>>]
Cached(t) == [full |-> TRUE, table |-> t]

\* `today` before line 54 has run
NoDay == [ym |-> 0, day |-> 0, tod |-> 0]

\* date strings of the API: "2023", "2023-02", "2023-01-31", unparseable
DateStrings ==
  { [kind |-> "Y", y |-> 2023, m |-> 1, d |-> 1],
    [kind |-> "YM", y |-> 2023, m |-> 2, d |-> 1],
    [kind |-> "YMD", y |-> 2023, m |-> 1, d |-> 31],
    [kind |-> "bad", y |-> 0, m |-> 0, d |-> 0] }

ApiValues == {218, 219}

Records ==
  [date : DateStrings \cup {NoDate},
   value : {Num(n) : n \in ApiValues} \cup {NULL, MISSING}]

RecordLists == UNION { [1..n -> Records] : n \in 0..MaxRecords }

Bodies ==
  { [shape |-> "notjson", records |-> <<>>],
    [shape |-> "short", records |-> <<>>],
    [shape |-> "nullsecond", records |-> <<>>] }
  \cup { [shape |-> "list", records |-> r] : r \in RecordLists }

EmptyBody == [shape |-> "notjson", records |-> <<>>]

\* a connection failure or timeout, or a response with a status and a body
Responses ==
  { [kind |-> "neterr", status |-> 0, body |-> EmptyBody] }
  \cup [kind : {"http"}, status : {200, 500}, body : Bodies]

\* no request was issued
NoResponse == [kind |-> "none", status |-> 0, body |-> EmptyBody]

\* pd.to_datetime on a date string: year -> Jan 1, year-month -> day 1, midnight
ToDatetime(s) ==
  IF s.kind = "Y" THEN Stamp(Ym(s.y, 1), 1, 0)
  ELSE IF s.kind = "YM" THEN Stamp(Ym(s.y, s.m), 1, 0)
  ELSE Stamp(Ym(s.y, s.m), s.d, 0)

\* the list comprehension: a row per record with a non-null value, or the
\* first exception raised while walking the records in order
RECURSIVE BuildRows(_)
BuildRows(recs) ==
  IF recs = <<>> THEN [err |-> NoError, rows |-> <<>>]
  ELSE LET d == Head(recs) IN
    IF d.value = MISSING THEN [err |-> "KeyError", rows |-> <<>>]
    ELSE IF d.value = NULL THEN BuildRows(Tail(recs))
    ELSE IF d.date = NoDate THEN [err |-> "KeyError", rows |-> <<>>]
    ELSE IF d.date.kind = "bad" THEN [err |-> "ValueError", rows |-> <<>>]
    ELSE LET rest == BuildRows(Tail(recs)) IN
      IF rest.err # NoError THEN rest
      ELSE [err |-> NoError,
            rows |-> <<[Date |-> ToDatetime(d.date), Inflation |-> d.value]>> \o rest.rows]

\* insertion of a row after every row whose Date is not later (stable)
RECURSIVE InsertByDate(_, _)
InsertByDate(row, sorted) ==
  IF sorted = <<>> THEN <<row>>
  ELSE IF Ord(Head(sorted).Date) <= Ord(row.Date)
       THEN <<Head(sorted)>> \o InsertByDate(row, Tail(sorted))
       ELSE <<row>> \o sorted

\* data.sort_values("Date")
RECURSIVE SortByDate(_)
SortByDate(rows) ==
  IF rows = <<>> THEN <<>>
  ELSE InsertByDate(rows[Len(rows)], SortByDate(SubSeq(rows, 1, Len(rows) - 1)))

\* get_world_bank_inflation on a cache miss: the exception or the table
GetWorldBankInflation(resp) ==
  IF resp.kind = "neterr" THEN [err |-> "RequestException", table |-> <<>>]
  ELSE IF resp.body.shape = "notjson" THEN [err |-> "JSONDecodeError", table |-> <<>>]
  ELSE IF resp.body.shape = "short" THEN [err |-> "IndexError", table |-> <<>>]
  ELSE IF resp.body.shape = "nullsecond" THEN [err |-> "TypeError", table |-> <<>>]
  ELSE LET built == BuildRows(resp.body.records) IN
    IF built.err # NoError THEN [err |-> built.err, table |-> <<>>]
    ELSE IF built.rows = <<>> THEN [err |-> "KeyError", table |-> <<>>]
    ELSE [err |-> NoError, table |-> SortByDate(built.rows)]

\* ------------------------------------------------------ user augmentation
\* datetime.today().replace(day=1): the day is reset, the time of day is kept
FirstOfMonth(t) == Stamp(t.ym, 1, t.tod)

\* today in data['Date'].values: exact timestamp equality
InDates(ts, series) == \E i \in 1..Len(series) : series[i].Date = ts

\* lines 52-57 as a function of the series, the widgets and the clock
Augment(series, enabled, value, t) ==
  IF enabled /\ ~InDates(FirstOfMonth(t), series)
  THEN series \o <<[Date |-> FirstOfMonth(t), Inflation |-> Num(value)]>>
  ELSE series

\* ------------------------------------------------------------- forecasting
\* Prophet.fit raises ValueError on fewer than 2 rows
FitRaises(series) == Len(series) < 2

RECURSIVE InsertStamp(_, _)
InsertStamp(ts, sorted) ==
  IF sorted = <<>> THEN <<ts>>
  ELSE IF Ord(Head(sorted)) = Ord(ts) THEN sorted
  ELSE IF Ord(Head(sorted)) < Ord(ts)
       THEN <<Head(sorted)>> \o InsertStamp(ts, Tail(sorted))
       ELSE <<ts>> \o sorted

\* history_dates: the unique ds values, sorted
RECURSIVE HistoryDates(_)
HistoryDates(series) ==
  IF series = <<>> THEN <<>>
  ELSE InsertStamp(series[Len(series)].Date,
                   HistoryDates(SubSeq(series, 1, Len(series) - 1)))

LastDate(series) == LET h == HistoryDates(series) IN h[Len(h)]

\* MonthEnd.rollforward: a timestamp on the last day of its month stays
RollForward(ts) ==
  IF ts.day = DaysInMonth(ts.ym) THEN ts
  ELSE Stamp(ts.ym, DaysInMonth(ts.ym), ts.tod)

\* the mutant of DateRange: month-start frequency ('MS')
DateRange_MonthStart(start, n) ==
  LET first == IF start.day = 1 THEN start.ym ELSE start.ym + 1
  IN [k \in 1..n |-> Stamp(first + (k - 1), 1, start.tod)]

\* pd.date_range(start, periods=n, freq='M'): n month ends from start on
DateRange(start, n) ==
  LET first == RollForward(start)
  IN [k \in 1..n |->
        Stamp(first.ym + (k - 1), DaysInMonth(first.ym + (k - 1)), first.tod)]

Min(a, b) == IF a < b THEN a ELSE b

\* the mutant of FutureDates: the dates > last_date filter is dropped
FutureDates_NoFilter(last, periods) ==
  SubSeq(DateRange(last, periods + 1), 1, periods)

\* make_future_dataframe: the first `periods` month ends after last_date
FutureDates(last, periods) ==
  LET dates == DateRange(last, periods + 1)
      later == SelectSeq(dates, LAMBDA x : Ord(x) > Ord(last))
  IN SubSeq(later, 1, Min(periods, Len(later)))

\* forecast_inflation: the ds column of model.predict(future)
ForecastInflation(series, periods) ==
  HistoryDates(series) \o FutureDates(LastDate(series), periods)

\* DataFrame.tail(n)
TailRows(s, n) == SubSeq(s, Len(s) - Min(n, Len(s)) + 1, Len(s))

\* ------------------------------------------------------------------ state
VARIABLES
  cache,             \* st.cache_data entry of get_world_bank_inflation
  fetched,           \* history: the table the first successful call returned
  requests,          \* number of HTTP requests issued by this process
  response,          \* the HTTP response of this render, if it issued one
  pc,                \* position of the script run
  error,             \* exception that aborted this render
  forecast_period,   \* slider state
  checkbox,          \* checkbox state
  current_inflation, \* number_input state
  clock,             \* wall clock, as last read
  today,             \* line 54
  data,              \* the script's `data`
  forecast,          \* ds column of `forecast`
  forecast_display,  \* ds column of `forecast_display`
  emitted            \* elements this render has sent to the page

vars == <<cache, fetched, requests, response, pc, error, forecast_period,
          checkbox, current_inflation, clock, today, data, forecast,
          forecast_display, emitted>>

NowMonths == {Ym(2023, 2), Ym(2023, 3)}
NowDays == {15}
Instants == { Stamp(ym, d, t) : ym \in NowMonths, d \in NowDays, t \in 0..MaxTod }
InflationChoices == {InflationMin, 225}

\* the wall clock when the process starts
StartClock == Stamp(Ym(2023, 2), 1, 0)

Init ==
  /\ cache = NoCache
  /\ fetched = NoCache
  /\ requests = 0
  /\ response = NoResponse
  /\ pc = "fetch"
  /\ error = NoError
  /\ forecast_period = SliderDefault
  /\ checkbox = FALSE
  /\ current_inflation = InflationMin
  /\ clock = StartClock
  /\ today = NoDay
  /\ data = <<>>
  /\ forecast = <<>>
  /\ forecast_display = <<>>
  /\ emitted = {"title"}

\* a script run starts: lines 38-39, everything of the last run is dropped
StartRun ==
  /\ pc' = "fetch"
  /\ error' = NoError
  /\ response' = NoResponse
  /\ today' = NoDay
  /\ data' = <<>>
  /\ forecast' = <<>>
  /\ forecast_display' = <<>>
  /\ emitted' = {"title"}
  /\ UNCHANGED <<cache, fetched, requests, clock>>

\* the script run has ended, by its last line or by an exception
Finished == pc \in {"done", "failed"}

\* the page is reloaded: a new session with the widgets' defaults
Reload ==
  /\ forecast_period' = SliderDefault
  /\ checkbox' = FALSE
  /\ current_inflation' = InflationMin
  /\ StartRun

\* the slider of the finished page is moved
MoveSlider ==
  /\ Finished
  /\ "slider" \in emitted
  /\ \E n \in SliderMin..SliderMax :
       /\ n # forecast_period
       /\ forecast_period' = n
  /\ UNCHANGED <<checkbox, current_inflation>>
  /\ StartRun

\* the checkbox of the finished page is toggled
ToggleCheckbox ==
  /\ Finished
  /\ "checkbox" \in emitted
  /\ checkbox' = ~checkbox
  /\ UNCHANGED <<forecast_period, current_inflation>>
  /\ StartRun

\* the number field of the finished page is edited
EditValue ==
  /\ Finished
  /\ "number_input" \in emitted
  /\ \E v \in InflationChoices :
       /\ v # current_inflation
       /\ current_inflation' = v
  /\ UNCHANGED <<forecast_period, checkbox>>
  /\ StartRun

\* line 42, cache hit: the memoized table, no request
FetchHit ==
  /\ pc = "fetch"
  /\ cache # NoCache
  /\ data' = cache.table
  /\ pc' = "raw"
  /\ UNCHANGED <<cache, fetched, requests, response, error, forecast_period,
                 checkbox, current_inflation, clock, today, forecast,
                 forecast_display, emitted>>

\* the mutant of FetchMiss: the function is not memoized
FetchMiss_NoMemo ==
  /\ pc = "fetch"
  /\ requests < MaxRequests
  /\ \E resp \in Responses :
       LET r == GetWorldBankInflation(resp) IN
       /\ requests' = requests + 1
       /\ response' = resp
       /\ IF r.err = NoError
          THEN /\ cache' = Cached(r.table)
               /\ fetched' = IF fetched = NoCache THEN Cached(r.table) ELSE fetched
               /\ data' = r.table
               /\ pc' = "raw"
               /\ error' = NoError
          ELSE /\ pc' = "failed"
               /\ error' = r.err
               /\ UNCHANGED <<cache, fetched, data>>
  /\ UNCHANGED <<forecast_period, checkbox, current_inflation, clock, today,
                 forecast, forecast_display, emitted>>

\* line 42, cache miss: one HTTP request; only a returned table is memoized
FetchMiss ==
  /\ pc = "fetch"
  /\ cache = NoCache
  /\ requests < MaxRequests
  /\ \E resp \in Responses :
       LET r == GetWorldBankInflation(resp) IN
       /\ requests' = requests + 1
       /\ response' = resp
       /\ IF r.err = NoError
          THEN /\ cache' = Cached(r.table)
               /\ fetched' = IF fetched = NoCache THEN Cached(r.table) ELSE fetched
               /\ data' = r.table
               /\ pc' = "raw"
               /\ error' = NoError
          ELSE /\ pc' = "failed"
               /\ error' = r.err
               /\ UNCHANGED <<cache, fetched, data>>
  /\ UNCHANGED <<forecast_period, checkbox, current_inflation, clock, today,
                 forecast, forecast_display, emitted>>

\* lines 45-49: the raw-data expander and the slider
ShowRaw ==
  /\ pc = "raw"
  /\ emitted' = emitted \cup {"raw", "slider"}
  /\ pc' = "input"
  /\ UNCHANGED <<cache, fetched, requests, response, error, forecast_period,
                 checkbox, current_inflation, clock, today, data, forecast,
                 forecast_display>>

\* the mutant of ManualInput: the appended row is written back to the cache
ManualInput_WriteBack ==
  /\ pc = "input"
  /\ IF checkbox
     THEN \E t \in Instants :
            /\ Ord(t) >= Ord(clock)
            /\ clock' = t
            /\ today' = FirstOfMonth(t)
            /\ data' = Augment(data, TRUE, current_inflation, t)
            /\ cache' = Cached(data')
            /\ emitted' = emitted \cup {"checkbox", "number_input"}
            /\ UNCHANGED current_inflation
     ELSE /\ emitted' = emitted \cup {"checkbox"}
          /\ current_inflation' = InflationMin
          /\ UNCHANGED <<clock, today, data, cache>>
  /\ pc' = "forecast"
  /\ UNCHANGED <<fetched, requests, response, error, forecast_period,
                 checkbox, forecast, forecast_display>>

\* lines 52-57: the checkbox, the number field and the appended row; a number
\* field that is not drawn loses its state
ManualInput ==
  /\ pc = "input"
  /\ IF checkbox
     THEN \E t \in Instants :
            /\ Ord(t) >= Ord(clock)
            /\ clock' = t
            /\ today' = FirstOfMonth(t)
            /\ data' = Augment(data, TRUE, current_inflation, t)
            /\ emitted' = emitted \cup {"checkbox", "number_input"}
            /\ UNCHANGED current_inflation
     ELSE /\ emitted' = emitted \cup {"checkbox"}
          /\ current_inflation' = InflationMin
          /\ UNCHANGED <<clock, today, data>>
  /\ pc' = "forecast"
  /\ UNCHANGED <<cache, fetched, requests, response, error, forecast_period,
                 checkbox, forecast, forecast_display>>

\* line 60, the fit succeeds
ForecastOk ==
  /\ pc = "forecast"
  /\ ~FitRaises(data)
  /\ forecast' = ForecastInflation(data, forecast_period)
  /\ pc' = "present"
  /\ UNCHANGED <<cache, fetched, requests, response, error, forecast_period,
                 checkbox, current_inflation, clock, today, data,
                 forecast_display, emitted>>

\* the mutant of ForecastFail: the exception is swallowed and the run goes on
ForecastFail_Swallow ==
  /\ pc = "forecast"
  /\ FitRaises(data)
  /\ error' = "ValueError"
  /\ pc' = "present"
  /\ UNCHANGED <<cache, fetched, requests, response, forecast_period,
                 checkbox, current_inflation, clock, today, data, forecast,
                 forecast_display, emitted>>

\* line 60, the fit raises: the run is aborted
ForecastFail ==
  /\ pc = "forecast"
  /\ FitRaises(data)
  /\ error' = "ValueError"
  /\ pc' = "failed"
  /\ UNCHANGED <<cache, fetched, requests, response, forecast_period,
                 checkbox, current_inflation, clock, today, data, forecast,
                 forecast_display, emitted>>

\* lines 63-86: chart, forecast table, download button
Present ==
  /\ pc = "present"
  /\ forecast_display' = TailRows(forecast, forecast_period)
  /\ emitted' = emitted \cup {"chart", "table", "csv"}
  /\ pc' = "done"
  /\ UNCHANGED <<cache, fetched, requests, response, error, forecast_period,
                 checkbox, current_inflation, clock, today, data, forecast>>

Next ==
  \/ Reload
  \/ MoveSlider
  \/ ToggleCheckbox
  \/ EditValue
  \/ FetchHit
  \/ FetchMiss
  \/ ShowRaw
  \/ ManualInput
  \/ ForecastOk
  \/ ForecastFail
  \/ Present

Spec == Init /\ [][Next]_vars

\* ----------------------------------------------------------------- claims
\* the series as it is after lines 52-57 of this run
AfterInput ==
  \/ pc \in {"forecast", "present", "done"}
  \/ (pc = "failed" /\ "checkbox" \in emitted)

StrictlyAscending(s) ==
  \A i \in 1..(Len(s) - 1) : Ord(s[i].Date) < Ord(s[i + 1].Date)

NoNulls(s) == \A i \in 1..Len(s) : s[i].Inflation.has = "num"

NonNullRecords(recs) == { i \in 1..Len(recs) : recs[i].value.has = "num" }

\* one row per calendar month, months increasing
StrictMonths(s) ==
  \A i \in 1..(Len(s) - 1) : s[i].Date.ym < s[i + 1].Date.ym

\* C1: for every response with at least 2 non-null records on which the call
\* returns, the returned table has no null value and its Date column is
\* strictly ascending.
C1_StrictlySorted ==
  (pc = "raw" /\ response.kind = "http"
     /\ Cardinality(NonNullRecords(response.body.records)) >= 2)
  => (NoNulls(data) /\ StrictlyAscending(data))

\* C2: after the augmentation step the series has strictly increasing dates
\* and no two rows in one calendar month (stated for fetched series that
\* themselves have one row per month, so that the step alone is tested).
C2_NoDuplicateMonth ==
  (AfterInput /\ StrictMonths(fetched.table))
  => (StrictlyAscending(data) /\ StrictMonths(data))

\* C3: applying the augmentation step a second time, with the same flag and
\* value and at any later instant of the same calendar month, appends no row.
C3_Idempotent ==
  AfterInput =>
    \A t2 \in Instants :
      (t2.ym = clock.ym /\ Ord(t2) >= Ord(clock))
      => Len(Augment(data, checkbox, current_inflation, t2)) = Len(data)

IsMonthEnd(ts) == ts.day = DaysInMonth(ts.ym)

\* C4: the displayed table has exactly N rows, on N consecutive month ends,
\* all strictly after every historical date.
C4_HorizonRows ==
  pc = "done" =>
    /\ Len(forecast_display) = forecast_period
    /\ \A i \in 1..Len(forecast_display) :
         /\ IsMonthEnd(forecast_display[i])
         /\ \A j \in 1..Len(data) : Ord(forecast_display[i]) > Ord(data[j].Date)
    /\ \A i \in 1..(Len(forecast_display) - 1) :
         forecast_display[i + 1].ym = forecast_display[i].ym + 1

\* a finished render at the full horizon whose last historical date is itself
\* a month end
C4_Witness ==
  /\ pc = "done"
  /\ forecast_period = SliderMax
  /\ Len(forecast_display) = SliderMax
  /\ \E j \in 1..Len(data) : data[j].Date = Stamp(Ym(2023, 1), 31, 0)
  /\ \A j \in 1..Len(data) : data[j].Date.ym = Ym(2023, 1)

\* the series [(2023-01-01, 21.8), (2023-02-01, 21.9)], no manual input, N = 3
ExampleCase ==
  /\ pc = "done"
  /\ ~checkbox
  /\ forecast_period = 3
  /\ data = << [Date |-> Stamp(Ym(2023, 1), 1, 0), Inflation |-> Num(218)],
               [Date |-> Stamp(Ym(2023, 2), 1, 0), Inflation |-> Num(219)] >>

C6_Memoized ==
  [][cache.full =>
       /\ requests' = requests
       /\ cache' = cache
       /\ (pc = "fetch" /\ pc' = "raw" => data' = fetched.table)]_vars

\* a render served from the cache
C6_Witness ==
  /\ pc = "raw"
  /\ response = NoResponse
  /\ requests >= 1
  /\ data = fetched.table

ErrorClass(e) ==
  IF e = "RequestException" THEN "NetworkError"
  ELSE IF e \in {"JSONDecodeError", "IndexError", "TypeError", "KeyError", "ValueError"}
       THEN "DataFormatError"
  ELSE "none"

HasMissingKey(recs) ==
  \E i \in 1..Len(recs) : recs[i].value = MISSING \/ recs[i].date = NoDate

UnexpectedShape(body) ==
  \/ body.shape \in {"short", "nullsecond"}
  \/ (body.shape = "list" /\ HasMissingKey(body.records))

\* C7: a failed request or a non-2xx response ends in a NetworkError, an
\* unexpected JSON shape in a DataFormatError; a non-2xx response yields
\* neither a table nor a DataFormatError.
C7_Classified ==
  /\ (response.kind = "neterr" \/ (response.kind = "http" /\ response.status # 200))
       => (pc = "failed" /\ ErrorClass(error) = "NetworkError")
  /\ (response.kind = "http" /\ response.status = 200 /\ UnexpectedShape(response.body))
       => (pc = "failed" /\ ErrorClass(error) = "DataFormatError")

Outputs == {"raw", "chart", "table", "csv"}

\* C8, as stated: a failed render has emitted none of its outputs.
C8_AllOrNothing ==
  pc = "failed" => emitted \cap Outputs = {}

\* C8, amended: chart, forecast table and download are emitted only by a
\* render whose every stage succeeded; a render whose fetch fails emits no
\* output; a render whose fit fails has emitted the raw-data view and nothing
\* else; a failed render takes no further step and issues no request.
C8_NoOutputAfterFailure ==
  /\ [](/\ (emitted \cap {"chart", "table", "csv"} # {})
              => (pc = "done" /\ error = NoError /\ Len(data) >= 2)
        /\ (pc = "failed" /\ data = <<>>) => emitted \cap Outputs = {}
        /\ (pc = "failed" /\ data # <<>>) => emitted \cap Outputs = {"raw"})
  /\ [][pc = "failed" => (pc' = "fetch" /\ requests' = requests)]_vars

\* a render aborted by the fit, after the raw-data view
C8_Witness ==
  /\ pc = "failed"
  /\ error = "ValueError"
  /\ Len(data) = 1
  /\ "raw" \in emitted

\* C9: in the forecast result each row's date lies in the calendar month after
\* the previous row's month.
C9_ContiguousMonths ==
  pc \in {"present", "done"} =>
    \A i \in 1..(Len(forecast) - 1) : forecast[i + 1].ym = forecast[i].ym + 1

====
